---- MODULE Spec2Model ----
(***************************************************************************)
(* Model of prologix-rs (src/src/lib.rs): the wire codec (MsgHeader,       *)
(* ControllerInfo), the request builders, discover() and reboot().         *)
(*                                                                         *)
(* Byte buffers are sequences of numbers in 0..255.  The source indexes    *)
(* from 0, TLA+ sequences from 1: At(b, i) is the source's b[i].           *)
(* Time is in milliseconds on the monotonic clock (Instant).               *)
(***************************************************************************)
EXTENDS Integers, Sequences, FiniteSets, TLC

VARIABLES
    op,          \* which public function was called: "none", "discover", "reboot", "decode"
    pc,          \* position inside the called function
    clock,       \* Instant::now(), ms
    now,         \* discover: `now`, the instant taken right after the send
    max_duration,\* discover: `max_duration`, ms
    addresses,   \* discover: the HashMap ip_addr -> ControllerInfo
    buf,         \* discover: the receive buffer of the current loop iteration
    result,      \* the value returned by the call
    target,      \* reboot: the `addr` argument
    duration,    \* discover: the `duration` argument
    delivered,   \* discover: number of datagrams and receive errors the network has delivered
    rng,         \* the last value drawn from the random generator
    sent,        \* datagrams handed to the network, in order
    attempts,    \* discover: number of recv_from attempts started
    outcome,     \* discover: how the last attempt ended
    datagram,    \* discover: the datagram delivered to the last attempt
    decoded,     \* discover: the ControllerInfo values decoded successfully, in order
    lastMap      \* discover: `addresses` as it was when the last attempt started

vars == <<op, pc, clock, now, max_duration, addresses, buf, result, target,
          duration, delivered, rng,
          sent, attempts, outcome, datagram, decoded, lastMap>>

----------------------------------------------------------------------------
(* Program constants *)

PROLOGIX_MAGIC == 90
IDENTIFY_CMD == 0
REBOOT_CMD == 18
PROLOGIX_PORT == 3040
INFO_LEN == 76
BUF_LEN == 76
MIN_REPLY_LEN == 24
RECV_TIMEOUT_MS == 100
DEFAULT_DURATION_MS == 500
BROADCAST_ADDR == <<255, 255, 255, 255>>

(* Bounds of the model *)

MaxArrivals == 3   \* datagrams and receive errors the network delivers during one discover()

(* tokio's timeout fires after its deadline, never before: an attempt     *)
(* that times out lasts 100 ms plus the lateness of the timer, in ms.     *)
TimerLate == 3

(* An attempt that gets a datagram or a receive error lasts what the      *)
(* network gives: no measurable time when the datagram is already queued, *)
(* otherwise the time until it arrives, below the 100 ms timeout.         *)
ArrivalDelays == {0, 10, 99}
None == [some |-> FALSE, ms |-> 0]
Some(ms) == [some |-> TRUE, ms |-> ms]
Durations == {None, Some(0), Some(120)}  \* the `duration` argument of discover()
Seqs == {4660, 255}                      \* values of rng.gen::<u16>()
HostA == <<192, 168, 1, 10>>
HostB == <<10, 0, 0, 7>>
Hosts == {HostA, HostB}
Tags == {0, 2}
DecodeLens == {0, 1, 11, 12, 23, 24, 43, 44, 75, 76, 77, 80}
DecodeFirstBytes == {PROLOGIX_MAGIC, 0, 165}

----------------------------------------------------------------------------
(* Helpers on byte buffers *)

At(b, i) == b[i + 1]

Slice(b, lo, hi) == SubSeq(b, lo + 1, hi)

Zeros(n) == [i \in 1..n |-> 0]

Min(a, b) == IF a < b THEN a ELSE b

u16_to_be_bytes(v) == <<(v \div 256) % 256, v % 256>>

u16_from_be_bytes(b) == At(b, 0) * 256 + At(b, 1)

----------------------------------------------------------------------------
(* MacAddress, MsgHeader *)

MacAddress_default == <<255, 255, 255, 255, 255, 255>>

MsgHeader_new(magic, id, seq, mac_addr) ==
    [magic |-> magic, id |-> id, seq |-> seq, mac_addr |-> mac_addr]

MsgHeader_to_bytes_le(h) ==
    <<h.magic, h.id>> \o <<h.seq % 256, (h.seq \div 256) % 256>>
        \o h.mac_addr \o <<0>> \o <<0>>

MsgHeader_to_bytes(h) ==
    <<h.magic, h.id>> \o u16_to_be_bytes(h.seq) \o h.mac_addr \o <<0>> \o <<0>>

MsgHeader_from_bytes(bytes) ==
    [magic |-> At(bytes, 0),
     id |-> At(bytes, 1),
     seq |-> u16_from_be_bytes(Slice(bytes, 2, 4)),
     mac_addr |-> Slice(bytes, 4, 10)]

----------------------------------------------------------------------------
(* Byte-to-enum conversions *)

ControllerMode_from(value) == IF value = 0 THEN "BootLoader" ELSE "Application"

ControllerAlert_from(value) ==
    IF value = 0 THEN "Ok" ELSE IF value = 1 THEN "Warning" ELSE "Error"

ControllerIpType_from(value) == IF value = 0 THEN "Dynamic" ELSE "Static"

ControllerVersion_new(major, minor, patch, bugfix) ==
    [major |-> major, minor |-> minor, patch |-> patch, bugfix |-> bugfix]

----------------------------------------------------------------------------
(* Results.  kind is "Ok", "ParseError", "Panic", "NotFound" or "Io". *)

NoInfo == [ip_addr |-> <<>>]

Ok(v) == [kind |-> "Ok", val |-> v, list |-> {}, info |-> ""]

OkList(l) == [kind |-> "Ok", val |-> NoInfo, list |-> l, info |-> ""]

OkUnit == [kind |-> "Ok", val |-> NoInfo, list |-> {}, info |-> ""]

Err(kind, info) == [kind |-> kind, val |-> NoInfo, list |-> {}, info |-> info]

NoResult == [kind |-> "Pending", val |-> NoInfo, list |-> {}, info |-> ""]

(* ControllerInfo::from_bytes, the field reads of lines 252-270.  A slice   *)
(* or index past the end of msg is a panic in Rust; the largest index read  *)
(* is 43.                                                                   *)
ControllerInfo_fields(msg) ==
    LET header == MsgHeader_from_bytes(Slice(msg, 0, 12))
        uptime_days == u16_from_be_bytes(Slice(msg, 12, 14)) * 24 * 3600
    IN  [mac_addr |-> header.mac_addr,
         uptime |-> uptime_days + At(msg, 14) * 3600 + At(msg, 15) * 60 + At(msg, 16),
         mode |-> ControllerMode_from(At(msg, 17)),
         alert |-> ControllerAlert_from(At(msg, 18)),
         ip_type |-> ControllerIpType_from(At(msg, 19)),
         ip_addr |-> <<At(msg, 20), At(msg, 21), At(msg, 22), At(msg, 23)>>,
         ip_netmask |-> <<At(msg, 24), At(msg, 25), At(msg, 26), At(msg, 27)>>,
         ip_gateway |-> <<At(msg, 28), At(msg, 29), At(msg, 30), At(msg, 31)>>,
         app_version |-> ControllerVersion_new(At(msg, 32), At(msg, 33), At(msg, 34), At(msg, 35)),
         boot_version |-> ControllerVersion_new(At(msg, 36), At(msg, 37), At(msg, 38), At(msg, 39)),
         hardware_version |-> ControllerVersion_new(At(msg, 40), At(msg, 41), At(msg, 42), At(msg, 43))]

(* from_bytes with the length check against 24 instead of 76 *)
ControllerInfo_from_bytes_len24(msg) ==
    IF Len(msg) < MIN_REPLY_LEN
    THEN Err("ParseError", "Failed to parse ControllerInfo")
    ELSE IF At(msg, 0) # PROLOGIX_MAGIC
    THEN Err("ParseError", "Incorrect magic number at start of message")
    ELSE IF Len(msg) < 44
    THEN Err("Panic", "index out of bounds")
    ELSE Ok(ControllerInfo_fields(msg))

(* from_bytes without the magic check *)
ControllerInfo_from_bytes_nomagic(msg) ==
    IF Len(msg) < INFO_LEN
    THEN Err("ParseError", "Failed to parse ControllerInfo")
    ELSE Ok(ControllerInfo_fields(msg))

ControllerInfo_from_bytes(msg) ==
    IF Len(msg) < INFO_LEN
    THEN Err("ParseError", "Failed to parse ControllerInfo")
    ELSE LET header == MsgHeader_from_bytes(Slice(msg, 0, 12))
         IN  IF header.magic # PROLOGIX_MAGIC
             THEN Err("ParseError", "Incorrect magic number at start of message")
             ELSE Ok(ControllerInfo_fields(msg))

----------------------------------------------------------------------------
(* Request builders; seq is the value drawn from the random generator *)

build_discovery(seq) ==
    MsgHeader_to_bytes(MsgHeader_new(PROLOGIX_MAGIC, IDENTIFY_CMD, seq, MacAddress_default))

RebootType == {"Bootloader", "Reset"}

RebootType_to_u8(t) == IF t = "Bootloader" THEN 0 ELSE 1

build_reboot(seq, reboot_type) ==
    MsgHeader_to_bytes(MsgHeader_new(PROLOGIX_MAGIC, REBOOT_CMD, seq, MacAddress_default))
        \o <<RebootType_to_u8(reboot_type)>> \o <<0>> \o <<0>> \o <<0>>

----------------------------------------------------------------------------
(* The datagrams the network may deliver: prefixes of identify replies *)

Reply(first, host, tag) ==
    <<first, 0, 18, 52>> \o <<0, 33, 105, 1, 2, host[4]>> \o <<0, 0>>
        \o <<0, 1, 2, 3, tag>> \o <<tag, tag, tag>>
        \o host \o <<255, 255, 255, 0>> \o <<host[1], host[2], host[3], 1>>
        \o <<1, 2, 3, 4>> \o <<0, 9, 0, 1>> \o <<1, 1, 0, 0>>
        \o [i \in 1..36 |-> 65]

Datagrams ==
    {SubSeq(Reply(PROLOGIX_MAGIC, HostA, 2), 1, 76),
     SubSeq(Reply(PROLOGIX_MAGIC, HostB, 2), 1, 80),
     SubSeq(Reply(PROLOGIX_MAGIC, HostA, 0), 1, 24),
     SubSeq(Reply(PROLOGIX_MAGIC, HostA, 0), 1, 23),
     SubSeq(Reply(0, HostA, 0), 1, 24),
     SubSeq(Reply(0, HostA, 0), 1, 76)}

DecodeInputs ==
    {SubSeq(Reply(f, h, t), 1, n) : f \in DecodeFirstBytes, h \in Hosts, t \in Tags, n \in DecodeLens}

----------------------------------------------------------------------------
(* Pieces of discover() *)

EmptyMap == [k \in {} |-> NoInfo]

HashMap_insert_keep(map, k, v) ==
    [x \in DOMAIN map \cup {k} |-> IF x \in DOMAIN map THEN map[x] ELSE v]

HashMap_insert(map, k, v) ==
    [x \in DOMAIN map \cup {k} |-> IF x = k THEN v ELSE map[x]]

HashMap_values(map) == {map[k] : k \in DOMAIN map}

(* socket.recv_from(&mut buf): copies at most buf.len() bytes of the        *)
(* datagram to the front of buf and returns the number of bytes copied.     *)
recv_from(b, dg) ==
    LET len == Min(Len(dg), Len(b))
    IN  [len |-> len, buf |-> [i \in 1..Len(b) |-> IF i <= len THEN dg[i] ELSE b[i]]]

loop_cond_inclusive(t, start, max) == t - start <= max

loop_cond(t, start, max) == t - start < max

accept_len_header(len) == len >= 12

accept_len(len) == len >= MIN_REPLY_LEN

decode_input(b, len) == b

unwrap_duration(d) == IF d.some THEN d.ms ELSE DEFAULT_DURATION_MS

discover_result_always_ok(map) == OkList(HashMap_values(map))

discover_result(map) ==
    IF DOMAIN map = {} THEN Err("NotFound", "") ELSE OkList(HashMap_values(map))

Packet(addr, bytes) == [to |-> addr, port |-> PROLOGIX_PORT, bytes |-> bytes]

----------------------------------------------------------------------------
(* State machine *)

Init ==
    /\ op = "none"
    /\ pc = "idle"
    /\ clock = 0
    /\ now = 0
    /\ max_duration = 0
    /\ addresses = EmptyMap
    /\ buf = <<>>
    /\ result = NoResult
    /\ target = <<>>
    /\ duration = None
    /\ delivered = 0
    /\ rng = 0
    /\ sent = <<>>
    /\ attempts = 0
    /\ outcome = "none"
    /\ datagram = <<>>
    /\ decoded = <<>>
    /\ lastMap = EmptyMap

Return(r) == result' = r /\ pc' = "done"

(* discover(), lines 326-329: the map, bind and set_broadcast *)
discover_bind ==
    /\ pc = "idle"
    /\ op' = "discover"
    /\ \E d \in Durations : duration' = d
    /\ addresses' = EmptyMap
    /\ \/ pc' = "send" /\ UNCHANGED result
       \/ Return(Err("Io", "bind"))
       \/ Return(Err("Io", "set_broadcast"))
    /\ UNCHANGED <<clock, now, max_duration, buf, target, delivered, rng, sent,
                   attempts, outcome, datagram, decoded, lastMap>>

(* discover_send that also retransmits the request after a timeout *)
discover_send_again ==
    /\ \/ /\ pc = "send"
          /\ \E seq \in Seqs :
                /\ rng' = seq
                /\ sent' = Append(sent, Packet(BROADCAST_ADDR, build_discovery(seq)))
          /\ now' = clock
          /\ max_duration' = unwrap_duration(duration)
          /\ pc' = "loop"
          /\ UNCHANGED result
       \/ /\ pc = "send"
          /\ \E seq \in Seqs : rng' = seq
          /\ Return(Err("Io", "send_to"))
          /\ UNCHANGED <<sent, now, max_duration>>
       \/ /\ pc = "loop" /\ outcome = "timeout" /\ Len(sent) < 2
          /\ \E seq \in Seqs :
                /\ rng' = seq
                /\ sent' = Append(sent, Packet(BROADCAST_ADDR, build_discovery(seq)))
          /\ UNCHANGED <<pc, result, now, max_duration>>
    /\ UNCHANGED <<op, clock, addresses, buf, target, duration, delivered,
                   attempts, outcome, datagram, decoded, lastMap>>

(* discover(), lines 331-339: the request is built (drawing the sequence   *)
(* number) and sent once, then `now` and `max_duration` are set             *)
discover_send ==
    /\ pc = "send"
    /\ \E seq \in Seqs :
          /\ rng' = seq
          /\ \/ /\ sent' = Append(sent, Packet(BROADCAST_ADDR, build_discovery(seq)))
                /\ now' = clock
                /\ max_duration' = unwrap_duration(duration)
                /\ pc' = "loop"
                /\ UNCHANGED result
             \/ /\ Return(Err("Io", "send_to"))
                /\ UNCHANGED <<sent, now, max_duration>>
    /\ UNCHANGED <<op, clock, addresses, buf, target, duration, delivered,
                   attempts, outcome, datagram, decoded, lastMap>>

(* discover(), lines 341-351: one iteration of the receive loop *)
discover_recv ==
    /\ pc = "loop"
    /\ loop_cond(clock, now, max_duration)
    /\ attempts' = attempts + 1
    /\ lastMap' = addresses
    /\ \/ \* timeout(100 ms) elapsed: Err(Elapsed)
          /\ clock' = clock + RECV_TIMEOUT_MS + TimerLate
          /\ buf' = Zeros(BUF_LEN)
          /\ outcome' = "timeout"
          /\ datagram' = <<>>
          /\ UNCHANGED <<pc, result, addresses, decoded, delivered>>
       \/ \* recv_from failed: Ok(Err(e))
          /\ delivered < MaxArrivals
          /\ delivered' = delivered + 1
          /\ \E d \in ArrivalDelays : clock' = clock + d
          /\ buf' = Zeros(BUF_LEN)
          /\ outcome' = "recv_error"
          /\ datagram' = <<>>
          /\ UNCHANGED <<pc, result, addresses, decoded>>
       \/ \* a datagram arrived: Ok(Ok((len, _)))
          /\ delivered < MaxArrivals
          /\ delivered' = delivered + 1
          /\ \E d \in ArrivalDelays : clock' = clock + d
          /\ \E dg \in Datagrams :
                LET rcv == recv_from(Zeros(BUF_LEN), dg)
                    r == ControllerInfo_from_bytes(decode_input(rcv.buf, rcv.len))
                IN  /\ datagram' = dg
                    /\ buf' = rcv.buf
                    /\ IF ~accept_len(rcv.len)
                       THEN /\ outcome' = "short"
                            /\ UNCHANGED <<pc, result, addresses, decoded>>
                       ELSE IF r.kind = "Ok"
                       THEN /\ addresses' = HashMap_insert(addresses, r.val.ip_addr, r.val)
                            /\ decoded' = Append(decoded, r.val)
                            /\ outcome' = "accepted"
                            /\ UNCHANGED <<pc, result>>
                       ELSE /\ Return(r)
                            /\ outcome' = "abort"
                            /\ UNCHANGED <<addresses, decoded>>
    /\ UNCHANGED <<op, now, max_duration, target, duration, rng, sent>>

(* discover(), lines 353-357: the window is over *)
discover_return ==
    /\ pc = "loop"
    /\ ~loop_cond(clock, now, max_duration)
    /\ Return(discover_result(addresses))
    /\ UNCHANGED <<op, clock, now, max_duration, addresses, buf, target, duration,
                   delivered, rng, sent, attempts, outcome, datagram, decoded, lastMap>>

(* reboot(), lines 369-370: the call for the controller at a, and the bind *)
reboot_bind ==
    /\ pc = "idle"
    /\ op' = "reboot"
    /\ \E a \in Hosts : target' = a
    /\ \/ pc' = "rsend" /\ UNCHANGED result
       \/ Return(Err("Io", "bind"))
    /\ UNCHANGED <<clock, now, max_duration, addresses, buf, duration, delivered, rng, sent,
                   attempts, outcome, datagram, decoded, lastMap>>

(* reboot(), lines 371-377: the request is always built for RebootType::Reset *)
reboot_send ==
    /\ pc = "rsend"
    /\ \E seq \in Seqs :
          /\ rng' = seq
          /\ \/ /\ sent' = Append(sent, Packet(target, build_reboot(seq, "Reset")))
                /\ Return(OkUnit)
             \/ /\ Return(Err("Io", "send_to"))
                /\ UNCHANGED sent
    /\ UNCHANGED <<op, clock, now, max_duration, addresses, buf, target, duration,
                   delivered, attempts, outcome, datagram, decoded, lastMap>>

Next ==
    \/ discover_bind
    \/ discover_send
    \/ discover_recv
    \/ discover_return
    \/ reboot_bind
    \/ reboot_send

Spec == Init /\ [][Next]_vars

(* The runtime keeps polling the call's future: every enabled step is taken *)
LiveSpec == Spec /\ WF_vars(Next)

----------------------------------------------------------------------------
(* The decoder applied to arbitrary buffers *)

InitDecode ==
    /\ op = "decode"
    /\ pc = "decode"
    /\ buf \in DecodeInputs
    /\ clock = 0
    /\ now = 0
    /\ max_duration = 0
    /\ addresses = EmptyMap
    /\ result = NoResult
    /\ target = <<>>
    /\ duration = None
    /\ delivered = 0
    /\ rng = 0
    /\ sent = <<>>
    /\ attempts = 0
    /\ outcome = "none"
    /\ datagram = <<>>
    /\ decoded = <<>>
    /\ lastMap = EmptyMap

decode_apply ==
    /\ pc = "decode"
    /\ Return(ControllerInfo_from_bytes(buf))
    /\ UNCHANGED <<op, clock, now, max_duration, addresses, buf, target, duration,
                   delivered, rng, sent, attempts, outcome, datagram, decoded, lastMap>>

NextDecode == decode_apply

SpecDecode == InitDecode /\ [][NextDecode]_vars

----------------------------------------------------------------------------
(* Vocabulary of the properties *)

InDiscover == op = "discover"

Finished == pc = "done"

Elapsed == clock - now

IdxOf(a) == {i \in DOMAIN decoded : decoded[i].ip_addr = a}

LastIdx(a) == CHOOSE i \in IdxOf(a) : \A j \in IdxOf(a) : j <= i

DecodedAddrs == {decoded[i].ip_addr : i \in DOMAIN decoded}

Received == InDiscover /\ datagram # <<>>

FF6 == <<255, 255, 255, 255, 255, 255>>

----------------------------------------------------------------------------
(* C1: during and after a discover() call the map holds exactly one entry   *)
(* per IPv4 address decoded so far, and that entry is the ControllerInfo    *)
(* decoded last for the address; a successful call returns exactly these    *)
(* entries, one per address.                                                *)
C1_LastDecodeWins ==
    InDiscover =>
        /\ DOMAIN addresses = DecodedAddrs
        /\ \A a \in DecodedAddrs : addresses[a] = decoded[LastIdx(a)]
        /\ (Finished /\ result.kind = "Ok") =>
              /\ result.list = {decoded[LastIdx(a)] : a \in DecodedAddrs}
              /\ \A a \in DecodedAddrs : Cardinality({c \in result.list : c.ip_addr = a}) = 1

C1_Witness ==
    /\ InDiscover /\ Finished /\ result.kind = "Ok"
    /\ Len(decoded) = 3
    /\ decoded[1].ip_addr = decoded[3].ip_addr
    /\ decoded[1] # decoded[3]
    /\ decoded[2].ip_addr # decoded[1].ip_addr
    /\ Cardinality(result.list) = 2

(* C2: when the window ends without an abort, discover() returns NotFound   *)
(* exactly when no reply was accepted, and otherwise the values of the map; *)
(* a successful discover() never returns an empty list.                     *)
C2_NotFoundIffNothingAccepted ==
    (InDiscover /\ Finished /\ sent # <<>> /\ outcome # "abort") =>
        /\ result.kind \in {"NotFound", "Ok"}
        /\ result.kind = "NotFound" <=> decoded = <<>>
        /\ result.kind = "Ok" =>
              /\ result.list = HashMap_values(addresses)
              /\ result.list # {}

C2_Witness ==
    /\ InDiscover /\ Finished /\ result.kind = "NotFound"
    /\ delivered = MaxArrivals
    /\ outcome = "timeout"

(* C3: a datagram of length >= 24 whose first byte is not 0x5A ends the     *)
(* call at once with a parse error; nothing accepted earlier is returned    *)
(* and no later attempt replaces it as the last one.                        *)
C3_BadMagicAborts ==
    (Received /\ Len(datagram) >= MIN_REPLY_LEN /\ datagram[1] # PROLOGIX_MAGIC) =>
        /\ Finished
        /\ result.kind = "ParseError"
        /\ result.list = {}
        /\ addresses = lastMap
        /\ outcome = "abort"

C3_Witness ==
    /\ Received /\ Len(datagram) >= INFO_LEN /\ datagram[1] # PROLOGIX_MAGIC
    /\ Finished /\ result.kind = "ParseError"
    /\ decoded # <<>>

(* C4: a datagram of 24..75 bytes is a decode failure (too short) that      *)
(* aborts the call with a parse error whatever its content, and is never    *)
(* inserted into the map.  discover() decodes the whole 76-byte buffer, not *)
(* the bytes received, so a 24-byte datagram that begins 0x5A is accepted.  *)
C4_ShortReplyAborts ==
    (Received /\ Len(datagram) >= MIN_REPLY_LEN /\ Len(datagram) < INFO_LEN) =>
        /\ Finished
        /\ result.kind = "ParseError"
        /\ addresses = lastMap

(* C5: for every reboot type t, reboot(a, t) sends exactly one 16-byte      *)
(* datagram to a:3040 that begins 0x5A,0x12, carries the broadcast MAC and  *)
(* ends [code(t),0,0,0], then returns success without any receive attempt.  *)
(* reboot() has no reboot-type parameter, so the datagram of a successful   *)
(* call is held against every t.                                            *)
C5_RebootCarriesType ==
    (op = "reboot" /\ Finished /\ result.kind = "Ok") =>
        /\ Len(sent) = 1
        /\ sent[1].to = target
        /\ sent[1].port = PROLOGIX_PORT
        /\ Len(sent[1].bytes) = 16
        /\ SubSeq(sent[1].bytes, 1, 2) = <<PROLOGIX_MAGIC, REBOOT_CMD>>
        /\ SubSeq(sent[1].bytes, 5, 10) = FF6
        /\ \A t \in RebootType :
              SubSeq(sent[1].bytes, 13, 16) = <<RebootType_to_u8(t), 0, 0, 0>>
        /\ attempts = 0

(* C6 as stated: each attempt lasts at most 100 ms, so the call is never    *)
(* later than 100 ms after the deadline.                                    *)
C6_Within100ms ==
    InDiscover => Elapsed <= max_duration + RECV_TIMEOUT_MS

(* C6 amended: a receive attempt starts only while the elapsed time is      *)
(* below the time budget and lasts at most 100 ms plus the lateness of the  *)
(* timer, so the elapsed time stays below budget + 100 ms + that lateness;  *)
(* with a zero budget no attempt is made and the call returns NotFound; and *)
(* every discover() call returns.                                           *)
C6_Bounded ==
    InDiscover =>
        /\ Elapsed < max_duration + RECV_TIMEOUT_MS + TimerLate
        /\ (Finished /\ sent # <<>> /\ duration = Some(0)) =>
              (attempts = 0 /\ result.kind = "NotFound")

C6_AttemptStep ==
    attempts' # attempts =>
        /\ Elapsed < max_duration
        /\ clock' >= clock
        /\ clock' - clock <= RECV_TIMEOUT_MS + TimerLate

C6_Terminates ==
    /\ [](C6_Bounded)
    /\ [][C6_AttemptStep]_vars
    /\ InDiscover ~> (InDiscover /\ Finished)

C6_Witness ==
    /\ InDiscover /\ Finished /\ duration = None
    /\ outcome = "timeout"
    /\ Elapsed > max_duration
    /\ attempts > 5

(* C7: a discover() call never has more than one datagram sent; once it is  *)
(* past the send (in the loop, after any receive attempt, or returned with  *)
(* anything but a transport failure) it has sent exactly one, the identify  *)
(* request to 255.255.255.255:3040.                                         *)
C7_SingleSend ==
    InDiscover =>
        /\ Len(sent) <= 1
        /\ (attempts > 0 \/ pc = "loop" \/ (Finished /\ result.kind # "Io")) =>
              /\ Len(sent) = 1
              /\ sent[1].to = BROADCAST_ADDR
              /\ sent[1].port = PROLOGIX_PORT
              /\ sent[1].bytes[2] = IDENTIFY_CMD
        /\ sent = <<>> => attempts = 0

C7_Witness ==
    /\ InDiscover /\ Finished
    /\ attempts >= 4
    /\ delivered >= 2
    /\ Len(sent) = 1

(* C8: the decoder succeeds exactly on the buffers of length >= 76 whose    *)
(* first byte is 0x5A; every other buffer gives a parse error, and no       *)
(* buffer makes it read out of range.                                       *)
C8_DecoderAcceptsExactly ==
    (op = "decode" /\ Finished) =>
        /\ result.kind \in {"Ok", "ParseError"}
        /\ result.kind = "Ok" <=> (Len(buf) >= 76 /\ buf[1] = 90)
        /\ Len(buf) < 76 => result.kind = "ParseError"

C8_Witness ==
    /\ op = "decode" /\ Finished
    /\ Len(buf) = 75 /\ buf[1] = 90
    /\ result.kind = "ParseError"

(* C9: the identify request is 12 bytes: 0x5A, 0x00, the sequence number    *)
(* big-endian, six 0xFF, 0x00, 0x00.                                        *)
C9_IdentifyRequest ==
    (InDiscover /\ sent # <<>>) =>
        LET b == sent[1].bytes
        IN  /\ Len(b) = 12
            /\ b[1] = 90 /\ b[2] = 0
            /\ b[3] = rng \div 256 /\ b[4] = rng % 256
            /\ SubSeq(b, 5, 10) = FF6
            /\ b[11] = 0 /\ b[12] = 0

C9_Witness == InDiscover /\ sent # <<>> /\ rng = 4660 /\ sent[1].bytes[3] = 18

(* C10: an attempt that ends with the 100 ms timeout, with a receive error  *)
(* or with a datagram shorter than 24 bytes leaves the map as it was and    *)
(* does not end the call with an error; the call ends after it only by the  *)
(* deadline check.                                                          *)
C10_DiscardedAttempt ==
    (InDiscover /\ attempts > 0
        /\ (outcome \in {"timeout", "recv_error"} \/ Len(datagram) < MIN_REPLY_LEN)) =>
        /\ addresses = lastMap
        /\ result.kind \in {"Pending", "NotFound", "Ok"}
        /\ pc \in {"loop", "done"}
        /\ Finished => Elapsed >= max_duration

C10_Witness ==
    /\ InDiscover /\ pc = "loop"
    /\ Len(datagram) = 23 /\ datagram[1] = PROLOGIX_MAGIC
    /\ outcome = "short"
    /\ DOMAIN addresses # {}

====
